---- MODULE Spec2Model ----
(***************************************************************************)
(* TensorFlowBackend (tensornetwork/backends/tensorflow/                   *)
(* tensorflow_backend.py): the adapter's argument validation, the library  *)
(* calls each method makes, and the library's global random state.         *)
(*                                                                         *)
(* A tensor is opaque to the adapter except for its shape, so a tensor is  *)
(* modelled by its shape (a tuple of dimensions).  Every method is an      *)
(* operator that yields the exception the adapter raises (if any), the     *)
(* sequence of library calls it makes, in order, and the value it returns  *)
(* (a reference to the result of one of those calls).                      *)
(***************************************************************************)
EXTENDS Integers, Sequences, FiniteSets, TLC

\* ---- bounds of the model ------------------------------------------------
MaxRank == 3
MaxDim == 2
MaxLen == 2
MaxSeed == 1
MaxDraws == 2

\* ---- program constant ---------------------------------------------------
HardCodedSeed == 10

\* ---- values -------------------------------------------------------------
\* Optional[...] arguments: None is the empty tuple, a given value x is <<x>>.
None == <<>>
Some(x) == <<x>>

Shapes == UNION {[1..n -> 1..MaxDim] : n \in 0..MaxRank}
\* one tensor of each rank, for operands whose dimensions no method inspects
Cubes == {[i \in 1..n |-> MaxDim] : n \in 0..MaxRank}
\* a vector and a matrix, for operands the adapter only passes on
Operands == {c \in Cubes : Len(c) \in 1..2}
IndexTuples == UNION {[1..n -> 0..1] : n \in 0..MaxLen}
Seeds == (0..MaxSeed) \cup {HardCodedSeed}
SeedArgs == {None} \cup {Some(s) : s \in Seeds}
DTypes == {"float32", "float64", "int32", "complex64", "complex128"}
DTypeArgs == {"None"} \cup DTypes
Boundaries == {<<0, 1>>, <<1, 2>>}

\* dtype.real_dtype
real_dtype(dtype) ==
  CASE dtype = "complex64" -> "float32"
    [] dtype = "complex128" -> "float64"
    [] OTHER -> dtype

\* Python truthiness of an Optional[int]: None and 0 are both false.
Truthy(seed) == seed # None /\ seed[1] # 0

\* ---- library calls ------------------------------------------------------
Call(fn, a) == [fn |-> fn, args |-> a]
\* the value produced by the i-th library call of the method; 0 = no value
Ref(i) == [ref |-> i]
NoResult == Ref(0)

\* reads: the indices of matrix.shape the method has subscripted
Raise(exc, cs) == [raised |-> exc, calls |-> cs, result |-> NoResult, reads |-> {}]
Return(cs) == [raised |-> "none", calls |-> cs, result |-> Ref(Len(cs)), reads |-> {}]

IsDraw(c) == c.fn \in {"random.normal", "random.uniform"}
IsSetSeed(c) == c.fn = "random.set_seed"

IsHelper(c) ==
  c.fn \in {"tensordot2.tensordot", "decompositions.svd_decomposition",
            "decompositions.qr_decomposition", "decompositions.rq_decomposition"}

\* The helper modules decompositions and tensordot2 receive self.tf and
\* wrap the same library; they make no use of its random generator.
HelperRng(rng, c) == rng

\* The library's global random state after a sequence of calls:
\* set_seed installs the seed and restarts the draw position, a draw
\* advances the position, every other call leaves the state alone.
RECURSIVE RngAfter(_, _)
RngAfter(rng, cs) ==
  IF cs = <<>> THEN rng
  ELSE LET c == Head(cs)
           next == IF IsSetSeed(c) THEN [seed |-> Some(c.args[1]), pos |-> 0]
                   ELSE IF IsDraw(c) THEN [seed |-> rng.seed, pos |-> rng.pos + 1]
                   ELSE IF IsHelper(c) THEN HelperRng(rng, c)
                   ELSE rng
       IN RngAfter(next, Tail(cs))

\* ---- construction -------------------------------------------------------
TFModule == "tensorflow_module"

\* __init__: import the library or fail; then set self.tf and self.name.
init_mut(available) ==
  IF available
  THEN [raised |-> "none", inst |-> Some([tf |-> TFModule, name |-> "tensorflow"])]
  ELSE [raised |-> "none", inst |-> Some([tf |-> "unset", name |-> "tensorflow"])]

init(available) ==
  IF available
  THEN [raised |-> "none", inst |-> Some([tf |-> TFModule, name |-> "tensorflow"])]
  ELSE [raised |-> "ImportError", inst |-> None]

\* ---- validated methods --------------------------------------------------
slice_mut(tensor, start_indices, slice_sizes) ==
  IF Len(start_indices) > Len(slice_sizes)
  THEN Raise("ValueError", <<>>)
  ELSE Return(<<Call("slice", <<tensor, start_indices, slice_sizes>>)>>)

slice(tensor, start_indices, slice_sizes) ==
  IF Len(start_indices) # Len(slice_sizes)
  THEN Raise("ValueError", <<>>)
  ELSE Return(<<Call("slice", <<tensor, start_indices, slice_sizes>>)>>)

inv_mut(matrix) ==
  IF Len(matrix) > 3
  THEN Raise("ValueError", <<Call("shape", <<matrix>>)>>)
  ELSE Return(<<Call("linalg.inv", <<matrix>>)>>)

inv(matrix) ==
  IF Len(matrix) > 2
  THEN Raise("ValueError", <<Call("shape", <<matrix>>)>>)
  ELSE Return(<<Call("linalg.inv", <<matrix>>)>>)

\* The squareness test subscripts shape[0] and shape[1]; the rank test
\* above it returns first for every rank other than 2.
expm_mut(matrix) ==
  IF Len(matrix) = 0 THEN [Raise("IndexError", <<>>) EXCEPT !.reads = {0}]
  ELSE IF Len(matrix) = 1 THEN [Raise("IndexError", <<>>) EXCEPT !.reads = {0, 1}]
  ELSE IF matrix[1] # matrix[2]
  THEN [Raise("ValueError", <<>>) EXCEPT !.reads = {0, 1}]
  ELSE IF Len(matrix) # 2
  THEN [Raise("ValueError", <<>>) EXCEPT !.reads = {0, 1}]
  ELSE [Return(<<Call("linalg.expm", <<matrix>>)>>) EXCEPT !.reads = {0, 1}]

expm(matrix) ==
  IF Len(matrix) # 2
  THEN Raise("ValueError", <<>>)
  ELSE IF matrix[1] # matrix[2]
  THEN [Raise("ValueError", <<>>) EXCEPT !.reads = {0, 1}]
  ELSE [Return(<<Call("linalg.expm", <<matrix>>)>>) EXCEPT !.reads = {0, 1}]

broadcast_right_multiplication_mut(tensor1, tensor2) ==
  IF Len(tensor2) > 1
  THEN Raise("ValueError", <<Call("shape", <<tensor2>>)>>)
  ELSE Return(<<Call("multiply", <<tensor1, tensor2>>)>>)

broadcast_right_multiplication(tensor1, tensor2) ==
  IF Len(tensor2) # 1
  THEN Raise("ValueError", <<Call("shape", <<tensor2>>)>>)
  ELSE Return(<<Call("multiply", <<tensor1, tensor2>>)>>)

\* [1] * n: a list of n ones, empty when n <= 0
Ones(n) == [i \in 1..n |-> 1]

broadcast_left_multiplication(tensor1, tensor2) ==
  IF Len(tensor1) # 1
  THEN Raise("ValueError", <<Call("shape", <<tensor1>>)>>)
  ELSE LET t1_broadcast_shape == tensor1 \o Ones(Len(tensor2) - 1)
       IN Return(<<Call("shape", <<tensor1>>),
                   Call("concat", <<<<Ref(1), Ones(Len(tensor2) - 1)>>, -1>>),
                   Call("reshape", <<tensor1, Ref(2), t1_broadcast_shape>>),
                   Call("multiply", <<tensor2, Ref(3)>>)>>)

\* ---- unimplemented methods ----------------------------------------------
eigs_mut(A, initial_state, numeig, which) ==
  IF initial_state = None
  THEN Raise("NotImplementedError", <<>>)
  ELSE Return(<<Call("linalg.eigh", <<initial_state[1]>>)>>)

eigs(A, initial_state, numeig, which) ==
  Raise("NotImplementedError", <<>>)

eigsh_lanczos(A, initial_state, numeig, reorthogonalize) ==
  Raise("NotImplementedError", <<>>)

\* ---- random generation --------------------------------------------------
\* "if seed: self.tf.random.set_seed(seed)"
SeedStep(seed) ==
  IF Truthy(seed) THEN <<Call("random.set_seed", <<seed[1]>>)>> ELSE <<>>

IsComplex(dtype) == dtype = "complex128" \/ dtype = "complex64"

\* "dtype if dtype is not None else self.tf.float64"
DefaultDType(dtype) == IF dtype # "None" THEN dtype ELSE "float64"

randn_mut(shape, dtype, seed) ==
  LET pre == SeedStep(seed)
      d == DefaultDType(dtype)
      n == Len(pre)
  IN IF IsComplex(d)
     THEN Return(pre \o <<Call("random.normal", <<shape, real_dtype(d)>>),
                          Call("complex", <<Ref(n + 1), Ref(n + 1)>>)>>)
     ELSE Return(pre \o <<Call("random.normal", <<shape, d>>)>>)

randn(shape, dtype, seed) ==
  LET pre == SeedStep(seed)
      d == DefaultDType(dtype)
      n == Len(pre)
  IN IF IsComplex(d)
     THEN Return(pre \o <<Call("random.normal", <<shape, real_dtype(d)>>),
                          Call("random.normal", <<shape, real_dtype(d)>>),
                          Call("complex", <<Ref(n + 1), Ref(n + 2)>>)>>)
     ELSE Return(pre \o <<Call("random.normal", <<shape, d>>)>>)

random_uniform(shape, boundaries, dtype, seed) ==
  LET pre == SeedStep(seed)
      d == DefaultDType(dtype)
      n == Len(pre)
  IN IF IsComplex(d)
     THEN Return(pre \o
            <<Call("random.uniform", <<shape, boundaries[1], boundaries[2], real_dtype(d)>>),
              Call("random.uniform", <<shape, boundaries[1], boundaries[2], real_dtype(d)>>),
              Call("complex", <<Ref(n + 1), Ref(n + 2)>>)>>)
     ELSE Return(pre \o
            <<Call("random.set_seed", <<HardCodedSeed>>),
              Call("random.uniform", <<shape, boundaries[1], boundaries[2], d>>)>>)

\* ---- constant tensors ---------------------------------------------------
eye(N, dtype, M) ==
  Return(<<Call("eye", <<N, M, DefaultDType(dtype)>>)>>)

ones(shape, dtype) ==
  Return(<<Call("ones", <<shape, DefaultDType(dtype)>>)>>)

zeros_mut(shape, dtype) ==
  Return(<<Call("random.normal", <<shape, DefaultDType(dtype)>>)>>)

zeros(shape, dtype) ==
  Return(<<Call("zeros", <<shape, DefaultDType(dtype)>>)>>)

\* ---- forwarding methods -------------------------------------------------
\* method name |-> library function, for the methods that pass one tensor on
UnaryFn ==
  [shape_tensor |-> "shape", shape_tuple |-> "Tensor.shape.as_list",
   sparse_shape |-> "Tensor.shape.as_list", shape_prod |-> "reduce_prod",
   sqrt |-> "sqrt", diag |-> "linalg.diag",
   convert_to_tensor |-> "convert_to_tensor", trace |-> "linalg.trace",
   norm |-> "linalg.norm", conj |-> "math.conj", eigh |-> "linalg.eigh",
   sin |-> "math.sin", cos |-> "math.cos", exp |-> "math.exp",
   log |-> "math.log"]

\* method name |-> tensor operator, for the elementwise arithmetic methods
ArithFn ==
  [addition |-> "add", subtraction |-> "subtract", multiply |-> "multiply",
   divide |-> "divide"]

\* method name |-> library function, for (tensor, tuple) methods
ShapedFn == [reshape |-> "reshape", transpose |-> "transpose"]

\* method name |-> helper function, for the (tensor, split_axis) methods
SplitFn ==
  [qr_decomposition |-> "decompositions.qr_decomposition",
   rq_decomposition |-> "decompositions.rq_decomposition"]

unary(method, tensor) == Return(<<Call(UnaryFn[method], <<tensor>>)>>)

arith(method, tensor1, tensor2) ==
  Return(<<Call(ArithFn[method], <<tensor1, tensor2>>)>>)

shaped(method, tensor, tuple) ==
  Return(<<Call(ShapedFn[method], <<tensor, tuple>>)>>)

split(method, tensor, split_axis) ==
  Return(<<Call(SplitFn[method], <<TFModule, tensor, split_axis>>)>>)

tensordot(a, b, axes) ==
  Return(<<Call("tensordot2.tensordot", <<TFModule, a, b, axes>>)>>)

outer_product(tensor1, tensor2) ==
  Return(<<Call("tensordot2.tensordot", <<TFModule, tensor1, tensor2, 0>>)>>)

svd_decomposition(tensor, split_axis, max_singular_values, relative) ==
  Return(<<Call("decompositions.svd_decomposition",
                <<TFModule, tensor, split_axis, max_singular_values, None, relative>>)>>)

shape_concat(values, axis) == Return(<<Call("concat", <<values, axis>>)>>)

einsum(expression, tensors) == Return(<<Call("einsum", <<expression, tensors>>)>>)

index_update(tensor, mask, assignee) ==
  Return(<<Call("where", <<mask, assignee, tensor>>)>>)

\* ---- state --------------------------------------------------------------
VARIABLES
  libAvailable, \* whether "import tensorflow" succeeds in this process
  inst,         \* the constructed backend (None before / without one)
  ctorRaised,   \* the exception the last construction raised
  rng,          \* the library's global random state: seed, draw position
  op,           \* the method called last
  argv,         \* its arguments
  raised,       \* the exception the adapter raised in it
  calls,        \* the library calls it made, in order
  result,       \* the value it returned
  reads         \* the indices of the argument's shape it subscripted

vars == <<libAvailable, inst, ctorRaised, rng, op, argv, raised, calls, result, reads>>

Init ==
  /\ libAvailable \in BOOLEAN
  /\ inst = None
  /\ ctorRaised = "none"
  /\ rng = [seed |-> None, pos |-> 0]
  /\ op = "none"
  /\ argv = <<>>
  /\ raised = "none"
  /\ calls = <<>>
  /\ result = NoResult
  /\ reads = {}

\* backend = TensorFlowBackend()
Construct ==
  /\ inst = None
  /\ LET r == init(libAvailable)
     IN /\ inst' = r.inst
        /\ ctorRaised' = r.raised
  /\ UNCHANGED <<libAvailable, rng, op, argv, raised, calls, result, reads>>

\* backend.<method>(*a), with outcome r: no method assigns to self
Invoke(method, a, r) ==
  /\ inst # None
  /\ RngAfter(rng, r.calls).pos <= MaxDraws
  /\ op' = method
  /\ argv' = a
  /\ raised' = r.raised
  /\ calls' = r.calls
  /\ result' = r.result
  /\ reads' = r.reads
  /\ rng' = RngAfter(rng, r.calls)
  /\ UNCHANGED <<libAvailable, inst, ctorRaised>>

Slice ==
  \E t \in {c \in Cubes : Len(c) = 2}, st \in IndexTuples, sz \in IndexTuples :
    Invoke("slice", <<t, st, sz>>, slice(t, st, sz))

Inv == \E m \in Shapes : Invoke("inv", <<m>>, inv(m))

Expm == \E m \in Shapes : Invoke("expm", <<m>>, expm(m))

BroadcastRight ==
  \E t1 \in Cubes, t2 \in Cubes :
    Invoke("broadcast_right_multiplication", <<t1, t2>>,
           broadcast_right_multiplication(t1, t2))

BroadcastLeft ==
  \E t1 \in Cubes, t2 \in Cubes :
    Invoke("broadcast_left_multiplication", <<t1, t2>>,
           broadcast_left_multiplication(t1, t2))

StateArgs == {None} \cup {Some(s) : s \in {<<1>>, <<2>>}}

Eigs ==
  \E st \in StateArgs, numeig \in 1..2, which \in {"LR", "LM"} :
    Invoke("eigs", <<"A", st, numeig, which>>, eigs("A", st, numeig, which))

EigshLanczos ==
  \E st \in StateArgs, numeig \in 1..2, reorth \in BOOLEAN :
    Invoke("eigsh_lanczos", <<"A", st, numeig, reorth>>,
           eigsh_lanczos("A", st, numeig, reorth))

Randn ==
  \E shape \in Operands, dtype \in DTypeArgs, seed \in SeedArgs :
    Invoke("randn", <<shape, dtype, seed>>, randn(shape, dtype, seed))

RandomUniform ==
  \E shape \in Operands, b \in Boundaries, dtype \in DTypeArgs, seed \in SeedArgs :
    Invoke("random_uniform", <<shape, b, dtype, seed>>,
           random_uniform(shape, b, dtype, seed))

Eye ==
  \E N \in 1..MaxDim, dtype \in DTypeArgs, M \in {None} \cup {Some(m) : m \in 1..MaxDim} :
    Invoke("eye", <<N, dtype, M>>, eye(N, dtype, M))

Ones_ ==
  \E shape \in Operands, dtype \in DTypeArgs :
    Invoke("ones", <<shape, dtype>>, ones(shape, dtype))

Zeros ==
  \E shape \in Operands, dtype \in DTypeArgs :
    Invoke("zeros", <<shape, dtype>>, zeros(shape, dtype))

Unary ==
  \E method \in DOMAIN UnaryFn, t \in Operands :
    Invoke(method, <<t>>, unary(method, t))

Arith ==
  \E method \in DOMAIN ArithFn, t1 \in Operands, t2 \in Operands :
    Invoke(method, <<t1, t2>>, arith(method, t1, t2))

Shaped ==
  \E method \in DOMAIN ShapedFn, t \in Operands, tuple \in IndexTuples :
    Invoke(method, <<t, tuple>>, shaped(method, t, tuple))

Split ==
  \E method \in DOMAIN SplitFn, t \in Operands, axis \in 0..1 :
    Invoke(method, <<t, axis>>, split(method, t, axis))

Tensordot ==
  \E a \in Operands, b \in Operands, axes \in {<<<<0>>, <<0>>>>, <<<<0>>, <<1>>>>} :
    Invoke("tensordot", <<a, b, axes>>, tensordot(a, b, axes))

OuterProduct ==
  \E t1 \in Operands, t2 \in Operands :
    Invoke("outer_product", <<t1, t2>>, outer_product(t1, t2))

SvdDecomposition ==
  \E t \in Operands, axis \in 0..1,
     k \in {None} \cup {Some(n) : n \in 1..MaxDim}, relative \in BOOLEAN :
    Invoke("svd_decomposition", <<t, axis, k, relative>>,
           svd_decomposition(t, axis, k, relative))

ShapeConcat ==
  \E v1 \in Operands, v2 \in Operands, axis \in {-1, 0} :
    Invoke("shape_concat", <<<<v1, v2>>, axis>>, shape_concat(<<v1, v2>>, axis))

Einsum ==
  \E expression \in {"ij,jk->ik", "i,i->"}, t1 \in Operands, t2 \in Operands :
    Invoke("einsum", <<expression, <<t1, t2>>>>, einsum(expression, <<t1, t2>>))

IndexUpdate ==
  \E t \in Operands, assignee \in Operands :
    Invoke("index_update", <<t, t, assignee>>, index_update(t, t, assignee))

Next ==
  \/ Construct
  \/ Slice
  \/ Inv
  \/ Expm
  \/ BroadcastRight
  \/ BroadcastLeft
  \/ Eigs
  \/ EigshLanczos
  \/ Randn
  \/ RandomUniform
  \/ Eye
  \/ Ones_
  \/ Zeros
  \/ Unary
  \/ Arith
  \/ Shaped
  \/ Split
  \/ Tensordot
  \/ OuterProduct
  \/ SvdDecomposition
  \/ ShapeConcat
  \/ Einsum
  \/ IndexUpdate

Spec == Init /\ [][Next]_vars

\* ---- properties ---------------------------------------------------------
DrawIndices == {i \in 1..Len(calls) : IsDraw(calls[i])}
SetSeedIndices == {i \in 1..Len(calls) : IsSetSeed(calls[i])}
Made(fn) == \E i \in 1..Len(calls) : calls[i].fn = fn
NonSquare(m) == Len(m) = 2 /\ m[1] # m[2]

\* C1 as stated: every input to inv that is non-square or of rank greater
\* than 2 gets a ValueError from the adapter and never reaches the
\* library's inverse.
C1_NonSquareOrHighRankRejected ==
  (op = "inv" /\ (Len(argv[1]) > 2 \/ NonSquare(argv[1])))
    => (raised = "ValueError" /\ ~Made("linalg.inv"))

\* C1 as amended: inv raises ValueError itself, without calling the
\* library's inverse, exactly for inputs of rank greater than 2; every
\* input of rank at most 2, square or not, is passed to the library's
\* inverse without a validation error.
C1_HighRankRejected ==
  op = "inv" =>
    /\ Len(argv[1]) > 2 => (raised = "ValueError" /\ ~Made("linalg.inv"))
    /\ Len(argv[1]) <= 2 =>
         (raised = "none" /\ calls = <<Call("linalg.inv", <<argv[1]>>)>>)

C1_Witness == op = "inv" /\ Len(argv[1]) = 3 /\ raised = "ValueError"

\* C2: a seed supplied to randn or random_uniform (0 included) is installed
\* by set_seed before the first draw of the call; with no seed supplied the
\* seed step makes no set_seed call (the only set_seed left is the fixed
\* one of random_uniform's real branch, right before its draw).
C2_SuppliedSeedInstalled ==
  op \in {"randn", "random_uniform"} =>
    LET seed == argv[Len(argv)]
    IN /\ seed # None =>
            /\ Len(calls) >= 1
            /\ IsSetSeed(calls[1])
            /\ calls[1].args[1] = seed[1]
       /\ seed = None =>
            \A i \in SetSeedIndices :
              /\ op = "random_uniform"
              /\ calls[i].args[1] = HardCodedSeed
              /\ i = Len(calls) - 1

\* C3: expm raises ValueError exactly when the rank is not 2 or the two
\* dimensions differ; a square matrix goes to the library's expm with no
\* error; the second dimension is never subscripted below rank 2.
C3_ExpmValidation ==
  op = "expm" =>
    LET m == argv[1]
        bad == Len(m) # 2 \/ m[1] # m[2]
    IN /\ raised \in {"none", "ValueError"}
       /\ (raised = "ValueError") <=> bad
       /\ ~bad => calls = <<Call("linalg.expm", <<m>>)>>
       /\ Len(m) < 2 => 1 \notin reads

C3_Witness == op = "expm" /\ Len(argv[1]) = 1 /\ raised = "ValueError"

\* C4: slice raises ValueError, without calling the library's slice, when
\* the lengths of start_indices and slice_sizes differ; otherwise it
\* forwards tensor, start_indices and slice_sizes unchanged.
C4_SliceValidation ==
  op = "slice" =>
    /\ Len(argv[2]) # Len(argv[3]) => (raised = "ValueError" /\ ~Made("slice"))
    /\ Len(argv[2]) = Len(argv[3]) =>
         /\ raised = "none"
         /\ calls = <<Call("slice", <<argv[1], argv[2], argv[3]>>)>>
         /\ result = Ref(1)

C4_Witness ==
  op = "slice" /\ Len(argv[2]) < Len(argv[3]) /\ raised = "ValueError"

\* C5: eigs and eigsh_lanczos raise NotImplementedError on every call,
\* return nothing and make no library call.
C5_AlwaysNotImplemented ==
  op \in {"eigs", "eigsh_lanczos"} =>
    (raised = "NotImplementedError" /\ calls = <<>> /\ result = NoResult)

C5_Witness ==
  op = "eigs" /\ argv[2] # None /\ rng.pos > 0 /\ raised = "NotImplementedError"

\* C6: the broadcast multiplications raise ValueError unless the broadcast
\* operand (tensor1 for left, tensor2 for right) has rank 1, before any
\* multiplication or reshape; a rank-1 operand raises nothing.
C6_BroadcastValidation ==
  /\ op = "broadcast_left_multiplication" =>
       /\ Len(argv[1]) # 1 =>
            (raised = "ValueError" /\ ~Made("multiply") /\ ~Made("reshape"))
       /\ Len(argv[1]) = 1 => raised = "none"
  /\ op = "broadcast_right_multiplication" =>
       /\ Len(argv[2]) # 1 =>
            (raised = "ValueError" /\ ~Made("multiply") /\ ~Made("reshape"))
       /\ Len(argv[2]) = 1 => raised = "none"

C6_Witness ==
  op = "broadcast_right_multiplication" /\ Len(argv[2]) = 0 /\ raised = "ValueError"

\* C7: construction either yields an instance holding both the library
\* handle and the name "tensorflow" (library available), or raises
\* ImportError and leaves no instance (library unavailable); no instance
\* holds one field without the other, and no method runs without one.
C7_ConstructionAllOrNothing ==
  /\ inst # None =>
       /\ inst[1].tf = TFModule
       /\ inst[1].name = "tensorflow"
       /\ libAvailable
       /\ ctorRaised = "none"
  /\ ctorRaised \in {"none", "ImportError"}
  /\ ctorRaised = "ImportError" => (~libAvailable /\ inst = None)
  /\ ~libAvailable => inst = None
  /\ op # "none" => inst # None

C7_Witness == ctorRaised = "ImportError" /\ inst = None

\* C8: random_uniform with a real dtype sets the seed to 10 right before
\* its draw, so the global seed is 10 afterwards; with a complex dtype it
\* makes no set_seed other than the caller's and draws under the seed the
\* caller supplied.
C8_UniformSeeds ==
  op = "random_uniform" =>
    LET complex == argv[3] \in {"complex64", "complex128"}
        seed == argv[4]
        n == Len(calls)
    IN IF ~complex
       THEN /\ n >= 2
            /\ IsSetSeed(calls[n - 1])
            /\ calls[n - 1].args[1] = HardCodedSeed
            /\ IsDraw(calls[n])
            /\ rng.seed = Some(HardCodedSeed)
       ELSE /\ \A i \in SetSeedIndices :
                 seed # None /\ calls[i].args[1] = seed[1]
            /\ seed # None => rng.seed = seed

\* C9: no method call changes the instance's library handle or name, and
\* every method other than randn and random_uniform leaves the library's
\* global random state (seed and draw position) as it was.
C9_Frame ==
  [][/\ inst # None => inst' = inst
     /\ op' \notin {"randn", "random_uniform"} => rng' = rng]_vars

C9_Witness ==
  /\ op \notin {"none", "randn", "random_uniform"}
  /\ raised = "ValueError"
  /\ rng.seed # None
  /\ rng.pos > 0

\* C10: with complex64 / complex128, randn and random_uniform make exactly
\* two draws, of the requested shape and of the real component type, and
\* combine the first as real and the second as imaginary part; with any
\* other dtype, or none (float64), they make exactly one draw of the
\* requested shape.
C10_DrawCount ==
  op \in {"randn", "random_uniform"} =>
    LET shape == argv[1]
        dtype == argv[Len(argv) - 1]
        fn == IF op = "randn" THEN "random.normal" ELSE "random.uniform"
        n == Len(calls)
        OfType(i, t) == /\ calls[i].fn = fn
                        /\ calls[i].args[1] = shape
                        /\ calls[i].args[Len(calls[i].args)] = t
    IN /\ dtype \in {"complex64", "complex128"} =>
            LET t == IF dtype = "complex64" THEN "float32" ELSE "float64"
            IN /\ DrawIndices = {n - 2, n - 1}
               /\ OfType(n - 2, t)
               /\ OfType(n - 1, t)
               /\ calls[n].fn = "complex"
               /\ calls[n].args = <<Ref(n - 2), Ref(n - 1)>>
               /\ result = Ref(n)
       /\ dtype \notin {"complex64", "complex128"} =>
            /\ DrawIndices = {n}
            /\ OfType(n, IF dtype = "None" THEN "float64" ELSE dtype)
            /\ result = Ref(n)

C10_Witness ==
  op = "randn" /\ argv[2] = "complex128" /\ argv[3] # None /\ Len(calls) = 4

====
